---------------------------- MODULE Spec2Model ----------------------------
(***************************************************************************)
(* A model of netlify/functions/api.ts: the Express application with its   *)
(* middleware chain, the five route handlers split at their awaits, the    *)
(* password helpers, and the exchange-rate helpers.                        *)
(*                                                                         *)
(* JavaScript strings that the code takes apart (passwords, stored         *)
(* hashes, query parameters) are sequences of one-character strings;       *)
(* strings the code only passes around are TLA+ strings.                   *)
(***************************************************************************)
EXTENDS Integers, Sequences, FiniteSets, TLC

VARIABLES
    users,        \* storage: the user records, in creation order
    conversions,  \* storage: the conversion records, in creation order
    req,          \* the requests, one record each, in order of arrival
    apiKey,       \* process.env.EXCHANGE_RATE_API_KEY: "" when unset
    hv            \* the hash/verify round trip of SpecHash

vars == <<users, conversions, req, apiKey, hv>>

(***************************************************************************)
(* Bounds of the model.                                                    *)
(***************************************************************************)
\* Requests one behaviour handles, all of which may be in flight at once.
NumRequests == 2
\* Distinct salts randomBytes can return.
NumSalts == 2

(***************************************************************************)
(* Program constants.                                                      *)
(***************************************************************************)
\* randomBytes(16)
SaltBytes == 16
\* scryptAsync(password, salt, 64)
KeyLen == 64

(***************************************************************************)
(* Strings and bytes.                                                      *)
(***************************************************************************)
HexDigits == <<"0", "1", "2", "3", "4", "5", "6", "7",
               "8", "9", "a", "b", "c", "d", "e", "f">>

\* The characters passwords and stored strings are made of.
Alphabet == HexDigits \o <<".", "p", "w", "x">>

CharCode(c) == CHOOSE i \in 1..Len(Alphabet) : Alphabet[i] = c

IsHexDigit(c) == c \in {HexDigits[i] : i \in 1..Len(HexDigits)}

HexVal(c) == (CHOOSE i \in 1..Len(HexDigits) : HexDigits[i] = c) - 1

\* buf.toString('hex'): two digits per byte, high nibble first.
ToHex(bytes) ==
    [i \in 1..(2 * Len(bytes)) |->
        IF i % 2 = 1 THEN HexDigits[(bytes[(i + 1) \div 2] \div 16) + 1]
        ELSE HexDigits[(bytes[i \div 2] % 16) + 1]]

\* The least element of a non-empty set of numbers.
Least(S) == CHOOSE x \in S : \A y \in S : x <= y

\* Buffer.from(s, 'hex'): one byte per pair of hex digits, stopping at the
\* first pair that is not two hex digits; a trailing single digit is dropped.
FromHex(s) ==
    LET stop == Least({i \in 1..Len(s) : ~IsHexDigit(s[i])} \cup {Len(s) + 1})
    IN [i \in 1..((stop - 1) \div 2) |->
           HexVal(s[2 * i - 1]) * 16 + HexVal(s[2 * i])]

\* s.split(sep) for a one-character separator: every piece, empty ones too.
\* The pieces lie between consecutive separators, the ends included.
Split(s, sep) ==
    LET at == {i \in 1..Len(s) : s[i] = sep}
        from(k) == IF k = 1 THEN 1
                   ELSE 1 + CHOOSE i \in at : Cardinality({j \in at : j <= i}) = k - 1
        to(k) == IF k = Cardinality(at) + 1 THEN Len(s)
                 ELSE (CHOOSE i \in at : Cardinality({j \in at : j <= i}) = k) - 1
    IN [k \in 1..(Cardinality(at) + 1) |-> SubSeq(s, from(k), to(k))]

\* The values randomBytes(16) may return: NumSalts of the 2^128.
RandomBytes(n) == {[i \in 1..n |-> (37 * k + 11 * i) % 256] : k \in 1..NumSalts}

\* The key derivation function, as an injective function of (password, salt):
\* the length of the password, its characters, the salt's characters, then
\* zero padding up to keylen bytes (every character code is at least 1).
Scrypt(password, salt, keylen) ==
    LET raw == <<Len(password) + 1>>
               \o [i \in 1..Len(password) |-> CharCode(password[i])]
               \o [i \in 1..Len(salt) |-> CharCode(salt[i])]
    IN [i \in 1..keylen |-> IF i <= Len(raw) THEN raw[i] ELSE 0]

(***************************************************************************)
(* The password helpers.                                                   *)
(***************************************************************************)
\* A bug hashPassword could have: the salt before the derived key.
hashPasswordSaltFirst(password, saltBytes) ==
    LET salt == ToHex(saltBytes)
        buf == Scrypt(password, salt, KeyLen)
    IN salt \o <<".">> \o ToHex(buf)

\* hashPassword, with the salt randomBytes returned made a parameter.
hashPassword(password, saltBytes) ==
    LET salt == ToHex(saltBytes)
        buf == Scrypt(password, salt, KeyLen)
    IN ToHex(buf) \o <<".">> \o salt

\* timingSafeEqual throws a RangeError on buffers of different lengths.
timingSafeEqual(a, b) ==
    IF Len(a) # Len(b) THEN [threw |-> TRUE, value |-> FALSE]
    ELSE [threw |-> FALSE, value |-> (a = b)]

\* comparePasswords: what it returns, or that it threw. scrypt throws a
\* TypeError when the salt is undefined, i.e. when stored has no '.'.
comparePasswords(supplied, stored) ==
    LET parts == Split(stored, ".")
    IN IF Len(parts) < 2 THEN [threw |-> TRUE, value |-> FALSE]
       ELSE LET hashed == parts[1]
                salt == parts[2]
                hashedBuf == FromHex(hashed)
                suppliedBuf == Scrypt(supplied, salt, KeyLen)
            IN timingSafeEqual(hashedBuf, suppliedBuf)

(***************************************************************************)
(* Inputs.                                                                 *)
(***************************************************************************)
\* Passwords: the empty string, one with the separator in it, and others.
Passwords == {<<>>, <<"p">>, <<"p", "w">>, <<"p", ".", "w">>, <<"x">>}

(***************************************************************************)
(* SpecHash: hashPassword and comparePasswords on every pair of passwords. *)
(***************************************************************************)
HashIdle == [pc |-> "idle", q |-> <<>>, p |-> <<>>, salt |-> <<>>,
             stored |-> <<>>, result |-> [threw |-> FALSE, value |-> FALSE]]

\* hashedPassword = await hashPassword(q)
HashStep ==
    /\ hv.pc = "start"
    /\ \E saltBytes \in RandomBytes(SaltBytes) :
          hv' = [hv EXCEPT !.pc = "hashed",
                           !.salt = ToHex(saltBytes),
                           !.stored = hashPassword(hv.q, saltBytes)]
    /\ UNCHANGED <<users, conversions, req, apiKey>>

\* await comparePasswords(p, hashedPassword)
CompareStep ==
    /\ hv.pc = "hashed"
    /\ hv' = [hv EXCEPT !.pc = "compared",
                        !.result = comparePasswords(hv.p, hv.stored)]
    /\ UNCHANGED <<users, conversions, req, apiKey>>


(***************************************************************************)
(* JavaScript numbers and parseInt.                                        *)
(***************************************************************************)
NaN == [nan |-> TRUE, val |-> 0]

Num(n) == [nan |-> FALSE, val |-> n]

\* String(undefined), which parseInt is given for a missing parameter.
UndefinedText == <<"u", "n", "d", "e", "f", "i", "n", "e", "d">>

DecDigits == <<"0", "1", "2", "3", "4", "5", "6", "7", "8", "9">>

IsDecDigit(c) == \E i \in 1..Len(DecDigits) : DecDigits[i] = c

DecVal(c) == (CHOOSE i \in 1..Len(DecDigits) : DecDigits[i] = c) - 1

RECURSIVE SkipSpace(_)
SkipSpace(s) == IF s # <<>> /\ Head(s) = " " THEN SkipSpace(Tail(s)) ELSE s

RECURSIVE DigitsValue(_, _)
\* The value of the longest prefix of decimal digits of s, after acc.
DigitsValue(s, acc) ==
    IF s = <<>> \/ ~IsDecDigit(Head(s)) THEN acc
    ELSE DigitsValue(Tail(s), acc * 10 + DecVal(Head(s)))

RECURSIVE HexDigitsValue(_, _)
\* The value of the longest prefix of hexadecimal digits of s, after acc.
HexDigitsValue(s, acc) ==
    IF s = <<>> \/ ~IsHexDigit(Head(s)) THEN acc
    ELSE HexDigitsValue(Tail(s), acc * 16 + HexVal(Head(s)))

\* parseInt(s) without a radix: leading blanks skipped, an optional sign, then
\* the longest prefix of digits, hexadecimal ones after 0x; NaN when there is
\* no digit.
parseInt(text) ==
    LET s == SkipSpace(text)
        neg == s # <<>> /\ Head(s) = "-"
        t == IF s # <<>> /\ Head(s) \in {"-", "+"} THEN Tail(s) ELSE s
        hex == Len(t) >= 2 /\ t[1] = "0" /\ t[2] = "x"
        h == SubSeq(t, 3, Len(t))
        abs == IF hex THEN HexDigitsValue(h, 0) ELSE DigitsValue(t, 0)
    IN IF hex /\ (h = <<>> \/ ~IsHexDigit(Head(h))) THEN NaN
       ELSE IF ~hex /\ (t = <<>> \/ ~IsDecDigit(Head(t))) THEN NaN
       ELSE Num(IF neg THEN 0 - abs ELSE abs)

\* n || dflt on a number: NaN and 0 are falsy.
OrDefault(n, dflt) == IF n.nan \/ n.val = 0 THEN Num(dflt) ELSE n

\* req.query[k] as parseInt sees it.
QueryText(query, k) == IF k \in DOMAIN query THEN query[k] ELSE UndefinedText

(***************************************************************************)
(* The storage collaborator (server/storage).                              *)
(***************************************************************************)
\* storage.getUserByUsername: the first user of that name, if any.
getUserByUsername(us, username) ==
    IF \E i \in 1..Len(us) : us[i].username = username
    THEN <<us[CHOOSE i \in 1..Len(us) :
                  /\ us[i].username = username
                  /\ \A j \in 1..(i - 1) : us[j].username # username]>>
    ELSE <<>>

\* storage.createUser: the inserted fields and a fresh id.
createUser(us, insert) ==
    [k \in DOMAIN insert \cup {"id"} |->
        IF k = "id" THEN Len(us) + 1 ELSE insert[k]]

\* storage.saveConversion: the inserted fields and a fresh id.
saveConversion(cs, data) ==
    [k \in DOMAIN data \cup {"id"} |->
        IF k = "id" THEN Len(cs) + 1 ELSE data[k]]

\* storage.getConversions: the page of the user's conversions, and their count.
getConversions(cs, userId, page, pageSize) ==
    LET mine == SelectSeq(cs, LAMBDA c : ~userId.nan /\ c.userId = userId)
        lo == (page.val - 1) * pageSize.val
        at == {i \in 1..Len(mine) : lo < i /\ i <= lo + pageSize.val}
    IN [conversions |-> SubSeq(mine, IF at = {} THEN 1 ELSE lo + 1,
                               IF at = {} THEN 0 ELSE lo + Cardinality(at)),
        total |-> Len(mine)]


(***************************************************************************)
(* The exchange-rate helpers.                                              *)
(***************************************************************************)
RECURSIVE GCD(_, _)
GCD(a, b) == IF b = 0 THEN a ELSE GCD(b, a % b)

\* The number n/d, in lowest terms.
Rat(n, d) == [kind |-> "number", num |-> n \div GCD(n, d), den |-> d \div GCD(n, d)]

NotANumber == [kind |-> "NaN", num |-> 0, den |-> 1]

\* The keys of baseRates.
Currencies == {"USD", "EUR", "GBP", "JPY", "CAD", "AUD", "CHF", "CNY", "INR", "RUB"}

\* baseRates, in hundredths.
baseRates == [c \in Currencies |->
    CASE c = "USD" -> 100
      [] c = "EUR" -> 85
      [] c = "GBP" -> 73
      [] c = "JPY" -> 11045
      [] c = "CAD" -> 125
      [] c = "AUD" -> 132
      [] c = "CHF" -> 92
      [] c = "CNY" -> 645
      [] c = "INR" -> 7450
      [] c = "RUB" -> 7320]

\* Properties every object literal inherits from Object.prototype.
ObjectPrototypeKeys == {"constructor", "toString", "valueOf", "hasOwnProperty",
                        "isPrototypeOf", "propertyIsEnumerable",
                        "toLocaleString", "__proto__"}

\* baseRates[key]: an own property, an inherited one (a function or an
\* object, never a number), or undefined.
BaseRatesGet(key) ==
    IF key \in Currencies THEN Rat(baseRates[key], 100)
    ELSE IF key \in ObjectPrototypeKeys THEN [kind |-> "object", num |-> 0, den |-> 1]
    ELSE [kind |-> "undefined", num |-> 0, den |-> 1]

\* v || 1: undefined, NaN and 0 are falsy; objects and functions are truthy.
OrOne(v) ==
    IF v.kind \in {"undefined", "NaN"} \/ (v.kind = "number" /\ v.num = 0)
    THEN Rat(1, 1) ELSE v

\* rate / baseValue: NaN unless the divisor converts to a number.
Divide(rate, baseValue) ==
    IF baseValue.kind # "number" \/ baseValue.num = 0 THEN NotANumber
    ELSE Rat(rate.num * baseValue.den, rate.den * baseValue.num)

\* new Date().toUTCString() of the moment of the call.
Now == "Sun, 01 Nov 2026 09:00:00 GMT"

getFallbackRates(baseCurrency) ==
    LET baseValue == OrOne(BaseRatesGet(baseCurrency))
    IN [base_code |-> baseCurrency,
        conversion_rates |->
            [c \in Currencies |-> Divide(Rat(baseRates[c], 100), baseValue)],
        time_last_update_utc |-> Now]

\* response.data of a successful GET to the provider, passed through as is.
ProviderData(baseCurrency) ==
    [result |-> "success", base_code |-> baseCurrency,
     conversion_rates |-> [c \in Currencies |-> Rat(baseRates[c] + 1, 100)],
     time_last_update_utc |-> Now]


\* A bug fetchExchangeRates could have: a second GET after a failed one.
fetchExchangeRatesRetry(baseCurrency, key, getOk) ==
    IF key # ""
    THEN IF getOk THEN [data |-> ProviderData(baseCurrency), gets |-> 1]
         ELSE [data |-> getFallbackRates(baseCurrency), gets |-> 2]
    ELSE [data |-> getFallbackRates(baseCurrency), gets |-> 0]

\* What fetchExchangeRates returns, and how many GETs it issued: getOk says
\* whether axios.get, if called, resolves (a 2xx reply) or rejects.
fetchExchangeRates(baseCurrency, key, getOk) ==
    IF key # ""
    THEN IF getOk THEN [data |-> ProviderData(baseCurrency), gets |-> 1]
         ELSE [data |-> getFallbackRates(baseCurrency), gets |-> 1]
    ELSE [data |-> getFallbackRates(baseCurrency), gets |-> 0]

(***************************************************************************)
(* Requests and responses.                                                 *)
(***************************************************************************)
Slots == 1..NumRequests

Routes == {"register", "login", "rates", "save", "list"}

NoCalls == [getUser |-> 0, hash |-> 0, createUser |-> 0, compare |-> 0,
            httpGet |-> 0, httpFail |-> 0, save |-> 0, list |-> 0]

\* The slot of a request that has not arrived. found is the result of getUserByUsername,
\* local the handler's other local (hashed password, baseCurrency,
\* conversionData, or the arguments of getConversions), snap the users in
\* storage when a register request arrived.
Idle == [pc |-> "idle", route |-> "none", input |-> <<>>, found |-> <<>>,
         local |-> <<>>, resp |-> <<>>, calls |-> NoCalls, snap |-> <<>>]

Response(status, body) == [status |-> status, body |-> body]

ErrorBody(message) == [error |-> message]

\* The fixed message of each route's catch block.
RouteError == [route \in Routes |->
    CASE route = "register" -> "Failed to register user"
      [] route = "login" -> "Login failed"
      [] route = "rates" -> "Failed to fetch exchange rates"
      [] route = "save" -> "Failed to save conversion"
      [] route = "list" -> "Failed to fetch conversions"]

\* The message of the SyntaxError bodyParser.json raises on a malformed body.
ParseErrorMessage == "Unexpected token } in JSON at position 12"

\* A bug WithoutPassword could have: nothing removed.
WithPassword(user) == user

\* const { password, ...userWithoutPassword } = user
WithoutPassword(user) == [k \in DOMAIN user \ {"password"} |-> user[k]]

\* A bug WithHashedPassword could have: { password: hashed, ...body }, where
\* the body's own password wins.
WithHashedPasswordFirst(body, hashed) ==
    [k \in DOMAIN body \cup {"password"} |->
        IF k \in DOMAIN body THEN body[k] ELSE hashed]

\* { ...body, password: hashed }
WithHashedPassword(body, hashed) ==
    [k \in DOMAIN body \cup {"password"} |->
        IF k = "password" THEN hashed ELSE body[k]]

\* { ...body, userId }
WithUserId(body, userId) ==
    [k \in DOMAIN body \cup {"userId"} |->
        IF k = "userId" THEN userId ELSE body[k]]

\* The slot sends its response and is finished.
Sent(slot, status, body) ==
    [slot EXCEPT !.pc = "done", !.resp = Append(@, Response(status, body))]

\* The catch block of the slot's route.
Caught(slot) == Sent(slot, 500, ErrorBody(RouteError[slot.route]))

Called(slot, what) == [slot EXCEPT !.calls[what] = @ + 1]

(***************************************************************************)
(* The middleware chain: cors, bodyParser.json, the error handler.         *)
(***************************************************************************)
\* Slot r is that of the next request to arrive.
IsNext(r) == req[r].pc = "idle" /\ \A s \in 1..(r - 1) : req[s].pc # "idle"

\* err.message || 'Internal Server Error'
MessageOr(message, dflt) == IF message = "" THEN dflt ELSE message

\* A request whose body bodyParser.json cannot parse: it passes the error
\* to next, and the error handler registered after it answers.
ParseFailure(r, route) ==
    /\ IsNext(r)
    /\ req' = [req EXCEPT ![r] =
                 Sent([Idle EXCEPT !.route = route], 500,
                      ErrorBody(MessageOr(ParseErrorMessage, "Internal Server Error")))]
    /\ UNCHANGED <<users, conversions, apiKey, hv>>

\* The request passes the middleware and its handler runs up to its first
\* await.
Arrive(r, route, input, pc, local) ==
    /\ IsNext(r)
    /\ req' = [req EXCEPT ![r] =
                 [Idle EXCEPT !.route = route, !.input = input, !.pc = pc,
                              !.local = local,
                              !.snap = IF route = "register" THEN users ELSE <<>>]]
    /\ UNCHANGED <<users, conversions, apiKey, hv>>

(***************************************************************************)
(* POST /register                                                          *)
(***************************************************************************)
RegisterStart(r, body) == Arrive(r, "register", body, "getUser", <<>>)

\* A bug the handler could have: no check of existingUser.
RegisterAfterLookupNoCheck(slot, existingUser) ==
    [slot EXCEPT !.found = <<>>, !.pc = "hash"]

\* if (existingUser) return 400; otherwise on to hashPassword.
RegisterAfterLookup(slot, existingUser) ==
    IF existingUser # <<>>
    THEN Sent([slot EXCEPT !.found = existingUser], 400,
              ErrorBody("Username already exists"))
    ELSE [slot EXCEPT !.found = existingUser, !.pc = "hash"]

\* await storage.getUserByUsername(req.body.username), then the check.
RegisterLookup(r) ==
    /\ req[r].route = "register" /\ req[r].pc = "getUser"
    /\ \E ok \in BOOLEAN :
          LET slot == Called(req[r], "getUser")
              existingUser == getUserByUsername(users, slot.input.username)
          IN req' = [req EXCEPT ![r] =
                IF ~ok THEN Caught(slot)
                ELSE RegisterAfterLookup(slot, existingUser)]
    /\ UNCHANGED <<users, conversions, apiKey, hv>>

\* await hashPassword(req.body.password); scrypt throws on undefined.
RegisterHash(r) ==
    /\ req[r].route = "register" /\ req[r].pc = "hash"
    /\ \E saltBytes \in RandomBytes(SaltBytes) :
          LET slot == Called(req[r], "hash")
          IN req' = [req EXCEPT ![r] =
                IF "password" \notin DOMAIN slot.input THEN Caught(slot)
                ELSE [slot EXCEPT !.pc = "create",
                         !.local = hashPassword(slot.input.password, saltBytes)]]
    /\ UNCHANGED <<users, conversions, apiKey, hv>>

\* await storage.createUser({...req.body, password}), then the 201.
RegisterCreate(r) ==
    /\ req[r].route = "register" /\ req[r].pc = "create"
    /\ \E ok \in BOOLEAN :
          LET slot == Called(req[r], "createUser")
              user == createUser(users, WithHashedPassword(slot.input, slot.local))
          IN IF ~ok
             THEN /\ req' = [req EXCEPT ![r] = Caught(slot)]
                  /\ users' = users
             ELSE /\ users' = Append(users, user)
                  /\ req' = [req EXCEPT ![r] = Sent(slot, 201, WithoutPassword(user))]
    /\ UNCHANGED <<conversions, apiKey, hv>>

(***************************************************************************)
(* POST /login                                                             *)
(***************************************************************************)
LoginStart(r, body) == Arrive(r, "login", body, "getUser", <<>>)

\* await storage.getUserByUsername(username); !user short-circuits.
LoginLookup(r) ==
    /\ req[r].route = "login" /\ req[r].pc = "getUser"
    /\ \E ok \in BOOLEAN :
          LET slot == Called(req[r], "getUser")
              user == getUserByUsername(users, slot.input.username)
          IN req' = [req EXCEPT ![r] =
                IF ~ok THEN Caught(slot)
                ELSE IF user = <<>>
                THEN Sent(slot, 401, ErrorBody("Invalid username or password"))
                ELSE [slot EXCEPT !.found = user, !.pc = "compare"]]
    /\ UNCHANGED <<users, conversions, apiKey, hv>>

\* A bug the handler could have: the verdict of comparePasswords ignored.
LoginAfterCompareAnyPassword(slot, user, verdict) ==
    IF verdict.threw THEN Caught(slot)
    ELSE Sent(slot, 200, WithoutPassword(user))

\* if (!(await comparePasswords(...))) return 401; otherwise the 200.
LoginAfterCompare(slot, user, verdict) ==
    IF verdict.threw THEN Caught(slot)
    ELSE IF ~verdict.value
    THEN Sent(slot, 401, ErrorBody("Invalid username or password"))
    ELSE Sent(slot, 200, WithoutPassword(user))

\* await comparePasswords(password, user.password), then the 401 or the 200.
\* scrypt throws on an undefined password.
LoginCompare(r) ==
    /\ req[r].route = "login" /\ req[r].pc = "compare"
    /\ LET slot == Called(req[r], "compare")
           user == slot.found[1]
           verdict == IF "password" \notin DOMAIN slot.input
                      THEN [threw |-> TRUE, value |-> FALSE]
                      ELSE comparePasswords(slot.input.password, user.password)
       IN req' = [req EXCEPT ![r] = LoginAfterCompare(slot, user, verdict)]
    /\ UNCHANGED <<users, conversions, apiKey, hv>>


(***************************************************************************)
(* GET /exchange-rates                                                     *)
(***************************************************************************)
\* req.query.base || 'USD': a missing or empty parameter gives USD.
BaseCurrency(query) ==
    IF "base" \in DOMAIN query /\ query.base # "" THEN query.base ELSE "USD"

RatesStart(r, query) == Arrive(r, "rates", query, "fetch", BaseCurrency(query))

\* await fetchExchangeRates(baseCurrency), then res.json(rates).
RatesFetch(r) ==
    /\ req[r].route = "rates" /\ req[r].pc = "fetch"
    /\ \E getOk \in BOOLEAN :
          LET got == fetchExchangeRates(req[r].local, apiKey, getOk)
              slot == [req[r] EXCEPT
                          !.calls.httpGet = @ + got.gets,
                          !.calls.httpFail = @ + (IF apiKey # "" /\ ~getOk THEN 1 ELSE 0)]
          IN req' = [req EXCEPT ![r] = Sent(slot, 200, got.data)]
    /\ UNCHANGED <<users, conversions, apiKey, hv>>

(***************************************************************************)
(* POST /conversions                                                       *)
(***************************************************************************)
SaveStart(r, body) ==
    Arrive(r, "save", body, "save",
           WithUserId(body, parseInt(QueryText(body, "userId"))))

\* await storage.saveConversion(conversionData), then the 201.
SaveStep(r) ==
    /\ req[r].route = "save" /\ req[r].pc = "save"
    /\ \E ok \in BOOLEAN :
          LET slot == Called(req[r], "save")
              conversion == saveConversion(conversions, slot.local)
          IN IF ~ok
             THEN /\ req' = [req EXCEPT ![r] = Caught(slot)]
                  /\ conversions' = conversions
             ELSE /\ conversions' = Append(conversions, conversion)
                  /\ req' = [req EXCEPT ![r] = Sent(slot, 201, conversion)]
    /\ UNCHANGED <<users, apiKey, hv>>

(***************************************************************************)
(* GET /conversions                                                        *)
(***************************************************************************)
\* The arguments the handler gives storage.getConversions.
ListArgs(query) ==
    <<parseInt(QueryText(query, "userId")),
      OrDefault(parseInt(QueryText(query, "page")), 1),
      OrDefault(parseInt(QueryText(query, "pageSize")), 10)>>

ListStart(r, query) == Arrive(r, "list", query, "list", ListArgs(query))

\* await storage.getConversions(userId, page, pageSize), then res.json.
ListStep(r) ==
    /\ req[r].route = "list" /\ req[r].pc = "list"
    /\ \E ok \in BOOLEAN :
          LET slot == Called(req[r], "list")
              a == slot.local
          IN req' = [req EXCEPT ![r] =
                IF ~ok THEN Caught(slot)
                ELSE Sent(slot, 200, getConversions(conversions, a[1], a[2], a[3]))]
    /\ UNCHANGED <<users, conversions, apiKey, hv>>

(***************************************************************************)
(* The requests the specifications send.                                   *)
(***************************************************************************)
RegisterBodies ==
    {[username |-> "alice", password |-> <<"p">>],
     [username |-> "bob", password |-> <<"x">>, email |-> "bob@example.org"],
     [username |-> "alice"]}

LoginBodies ==
    {[username |-> "alice", password |-> <<"p">>],
     [username |-> "alice", password |-> <<"x">>],
     [username |-> "alice"]}

RatesQueries == {[base |-> "EUR"]}

AllRatesQueries ==
    {<<>>} \cup {[base |-> b] : b \in Currencies \cup
                    {"", "XYZ", "eur", "constructor", "__proto__"}}

SaveBodies ==
    {[userId |-> <<"5">>, fromCurrency |-> "USD", toCurrency |-> "EUR",
      amount |-> 100]}

ListQueries == {[userId |-> <<"5">>, page |-> <<"2">>, pageSize |-> <<"3">>]}

\* Query parameter texts: integers, zero, negative, hexadecimal, padded,
\* with a tail, not a number, empty.
ParamTexts == {<<"5">>, <<"2">>, <<"1", "0">>, <<"0">>, <<"-", "1">>,
               <<"0", "x", "1", "0">>, <<" ", "3">>, <<"2", "x">>,
               <<"a", "b", "c">>, <<>>}

AllListQueries ==
    {<<>>, [userId |-> <<"5">>]}
    \cup {[userId |-> u] : u \in {<<"a", "b", "c">>, <<"7">>}}
    \cup {[userId |-> <<"5">>, page |-> t] : t \in ParamTexts}
    \cup {[userId |-> <<"5">>, pageSize |-> t] : t \in ParamTexts}
    \cup {[userId |-> <<"5">>, page |-> <<"2">>, pageSize |-> <<"3">>]}

(***************************************************************************)
(* The specifications.                                                     *)
(***************************************************************************)
\* The user an earlier POST /register of alice with password p has stored.
Alice ==
    createUser(<<>>, WithHashedPassword(
        [username |-> "alice", password |-> <<"p">>],
        hashPassword(<<"p">>, CHOOSE b \in RandomBytes(SaltBytes) : TRUE)))

\* The application starts on storage that is empty or holds one user, with
\* the API key set: the provider may answer or fail, and either snapshot may
\* be served. (SpecRates starts with the key set or unset.)
Init ==
    /\ users \in {<<>>, <<Alice>>}
    /\ conversions = <<>>
    /\ req = [r \in Slots |-> Idle]
    /\ apiKey = "live-key"
    /\ hv = HashIdle

\* The steps of the handlers, from their first await on.
Step(r) ==
    \/ RegisterLookup(r)
    \/ RegisterHash(r)
    \/ RegisterCreate(r)
    \/ LoginLookup(r)
    \/ LoginCompare(r)
    \/ RatesFetch(r)
    \/ SaveStep(r)
    \/ ListStep(r)

\* A request arrives.
Begin(r) ==
    \/ \E route \in Routes : ParseFailure(r, route)
    \/ \E body \in RegisterBodies : RegisterStart(r, body)
    \/ \E body \in LoginBodies : LoginStart(r, body)
    \/ \E query \in RatesQueries : RatesStart(r, query)
    \/ \E body \in SaveBodies : SaveStart(r, body)
    \/ \E query \in ListQueries : ListStart(r, query)

\* Requests interleave at their awaits.
Next == \E r \in Slots : Begin(r) \/ Step(r)

Spec == Init /\ [][Next]_vars

\* No other request is being handled.
Quiet(r) == \A s \in Slots \ {r} : req[s].pc \in {"idle", "done"}

\* Requests are handled one after another.
NextSeq == \E r \in Slots : (Quiet(r) /\ Begin(r)) \/ Step(r)

SpecSeq == Init /\ [][NextSeq]_vars

\* The password helpers alone, on every pair of passwords.
InitHash ==
    /\ users = <<>>
    /\ conversions = <<>>
    /\ req = [r \in Slots |-> Idle]
    /\ apiKey = ""
    /\ hv \in {[HashIdle EXCEPT !.pc = "start", !.q = q, !.p = p] :
                  q \in Passwords, p \in Passwords}

NextHash == HashStep \/ CompareStep

SpecHash == InitHash /\ [][NextHash]_vars

\* Storage is empty and stays so; the API key is set or not.
InitEmpty ==
    /\ users = <<>>
    /\ conversions = <<>>
    /\ req = [r \in Slots |-> Idle]
    /\ apiKey \in {"", "live-key"}
    /\ hv = HashIdle

\* GET /exchange-rates alone, on every base currency.
NextRates ==
    \E r \in Slots :
        \/ \E query \in AllRatesQueries : RatesStart(r, query)
        \/ RatesFetch(r)

SpecRates == InitEmpty /\ [][NextRates]_vars

\* The conversions routes alone, on every query.
NextList ==
    \E r \in Slots :
        \/ \E body \in SaveBodies : SaveStart(r, body)
        \/ SaveStep(r)
        \/ \E query \in AllListQueries : ListStart(r, query)
        \/ ListStep(r)

\* No user is stored and the API key is unset.
InitList ==
    /\ users = <<>>
    /\ conversions = <<>>
    /\ req = [r \in Slots |-> Idle]
    /\ apiKey = ""
    /\ hv = HashIdle

SpecList == InitList /\ [][NextList]_vars


(***************************************************************************)
(* Properties.                                                             *)
(***************************************************************************)
\* The slots whose request reached its handler, which made a call and answered.
Answered(route) ==
    {r \in Slots : req[r].route = route /\ req[r].pc = "done"
                   /\ req[r].calls # NoCalls}

HasUser(us, username) == \E i \in 1..Len(us) : us[i].username = username

\* The user record as a client may see it.
Public(user) == [k \in DOMAIN user \ {"password"} |-> user[k]]

Status(r) == req[r].resp[1].status

Body(r) == req[r].resp[1].body

\* The register requests that were answered and are the last to have arrived.
LastRegistered == {r \in Answered("register") : r = NumRequests \/ IsNext(r + 1)}

(* C1, as stated: handled one after another, a register request for a
   username already in storage is answered 400 'Username already exists',
   calls createUser zero times and leaves the users unchanged; one for a
   username not in storage creates exactly one user and is answered 201. *)
RegisterAlwaysDecides ==
    \A r \in LastRegistered :
        IF HasUser(req[r].snap, req[r].input.username)
        THEN /\ Status(r) = 400
             /\ Body(r) = ErrorBody("Username already exists")
             /\ req[r].calls.createUser = 0
             /\ users = req[r].snap
        ELSE /\ Status(r) = 201
             /\ req[r].calls.createUser = 1
             /\ Len(users) = Len(req[r].snap) + 1
             /\ SubSeq(users, 1, Len(req[r].snap)) = req[r].snap
             /\ users[Len(users)].username = req[r].input.username

(* C1, amended: the same, provided none of the awaited calls
   (getUserByUsername, hashPassword, createUser) throws; when one throws,
   as hashPassword does on a body without a password, the answer is 500
   'Failed to register user' and the users are unchanged. *)
RegisterDecidesUnlessThrown ==
    \A r \in LastRegistered :
        /\ Len(req[r].resp) = 1
        /\ Status(r) \in {400, 201, 500}
        /\ Status(r) = 500 =>
              /\ Body(r) = ErrorBody("Failed to register user")
              /\ users = req[r].snap
        /\ Status(r) = 400 =>
              /\ HasUser(req[r].snap, req[r].input.username)
              /\ Body(r) = ErrorBody("Username already exists")
              /\ req[r].calls.createUser = 0
              /\ users = req[r].snap
        /\ Status(r) = 201 =>
              /\ ~HasUser(req[r].snap, req[r].input.username)
              /\ req[r].calls.createUser = 1
              /\ Len(users) = Len(req[r].snap) + 1
              /\ SubSeq(users, 1, Len(req[r].snap)) = req[r].snap
              /\ users[Len(users)].username = req[r].input.username
        /\ HasUser(req[r].snap, req[r].input.username) => Status(r) # 201
        /\ (~HasUser(req[r].snap, req[r].input.username)
            /\ "password" \notin DOMAIN req[r].input) => Status(r) = 500

\* C1's case: one register created bob, the next one for bob was refused.
RegisterRefusedTwice ==
    \E r, s \in Answered("register") :
        /\ r < s /\ s \in LastRegistered
        /\ req[r].input.username = "bob" /\ req[s].input.username = "bob"
        /\ Status(r) = 201 /\ Status(s) = 400

(* C2: usernames are unique in every reachable state: whatever the
   interleaving of register requests, storage never holds two users of the
   same name, and no two requests have created a user of the same name. *)
UsernamesUnique ==
    /\ \A i, j \in 1..Len(users) :
          users[i].username = users[j].username => i = j
    /\ \A r, s \in Answered("register") :
          (/\ Status(r) = 201 /\ Status(s) = 201
           /\ req[r].input.username = req[s].input.username) => r = s

\* The messages the application puts in an error body.
ErrorMessages ==
    {RouteError[route] : route \in Routes}
    \cup {"Username already exists", "Invalid username or password",
          ParseErrorMessage, "Internal Server Error"}

(* C3: no response carries a password: the body of every 201 of register
   and every 200 of login is the stored user record without its password
   key, and every other body is an error message, a rate snapshot, a
   conversion or a page of conversions, none with a password key. *)
NoPasswordInResponse ==
    \A r \in Slots : \A i \in 1..Len(req[r].resp) :
        LET status == req[r].resp[i].status
            body == req[r].resp[i].body
        IN /\ "password" \notin DOMAIN body
           /\ "error" \in DOMAIN body =>
                 DOMAIN body = {"error"} /\ body.error \in ErrorMessages
           /\ (req[r].route \in {"register", "login"} /\ status \in {200, 201}) =>
                 \E u \in 1..Len(users) :
                     /\ users[u].username = req[r].input.username
                     /\ "password" \in DOMAIN users[u]
                     /\ body = Public(users[u])
           /\ (req[r].route \in {"register", "login"} /\ status \notin {200, 201}) =>
                 "error" \in DOMAIN body
           /\ (req[r].route = "rates" /\ status = 200) =>
                 "conversion_rates" \in DOMAIN body
           /\ (req[r].route = "save" /\ status = 201) =>
                 DOMAIN body = DOMAIN req[r].input \cup {"id", "userId"}
           /\ (req[r].route = "list" /\ status = 200) =>
                 DOMAIN body = {"conversions", "total"}

\* C3's case: a registration and a login have both succeeded.
UserReturnedTwice ==
    /\ \E r \in Answered("register") : Status(r) = 201
    /\ \E r \in Answered("login") : Status(r) = 200

\* What comparePasswords says of a login request's password and a user.
Verifies(r, user) ==
    /\ "password" \in DOMAIN req[r].input
    /\ comparePasswords(req[r].input.password, user.password)
          = [threw |-> FALSE, value |-> TRUE]

Rejects(r, user) ==
    /\ "password" \in DOMAIN req[r].input
    /\ comparePasswords(req[r].input.password, user.password)
          = [threw |-> FALSE, value |-> FALSE]

\* C4, the lookup: with no user of that name in storage the answer is the
\* 401 and comparePasswords is not called; with one, it is called next.
LoginLookupDecides(r) ==
    (req[r].route = "login" /\ req[r].pc = "getUser" /\ req'[r].pc # "getUser") =>
        /\ req'[r].calls.getUser = 1
        /\ IF HasUser(users, req[r].input.username)
           THEN \/ /\ req'[r].pc = "compare"
                   /\ req'[r].found = getUserByUsername(users, req[r].input.username)
                \/ /\ req'[r].pc = "done"
                   /\ req'[r].resp = <<Response(500, ErrorBody("Login failed"))>>
           ELSE /\ req'[r].pc = "done"
                /\ req'[r].calls.compare = 0
                /\ req'[r].resp \in
                      {<<Response(401, ErrorBody("Invalid username or password"))>>,
                       <<Response(500, ErrorBody("Login failed"))>>}

\* C4, the verification: 200 with the user exactly when it succeeds, the
\* same 401 when it fails.
LoginCompareDecides(r) ==
    (req[r].route = "login" /\ req[r].pc = "compare" /\ req'[r].pc # "compare") =>
        LET user == req[r].found[1]
        IN /\ req'[r].pc = "done"
           /\ req'[r].calls.compare = 1
           /\ Verifies(r, user) =>
                 req'[r].resp = <<Response(200, Public(user))>>
           /\ Rejects(r, user) =>
                 req'[r].resp =
                    <<Response(401, ErrorBody("Invalid username or password"))>>
           /\ (~Verifies(r, user) /\ ~Rejects(r, user)) =>
                 req'[r].resp = <<Response(500, ErrorBody("Login failed"))>>

(* C4: login answers 401 'Invalid username or password' whenever storage
   has no user of the given name or the password fails verification
   against the stored one, and 200 with the user only when the user exists
   and verification succeeds; with no user comparePasswords is not called,
   and the 401 is the same response in both cases. *)
LoginContract ==
    [][\A r \in Slots : LoginLookupDecides(r) /\ LoginCompareDecides(r)]_vars

\* C4's case: one login was let in and another, for a stored user, refused.
LoginBothWays ==
    \E r, s \in Answered("login") :
        /\ Status(r) = 200
        /\ Status(s) = 401 /\ req[s].calls.compare = 1

(* C5: with the key derivation an injective function of (password, salt),
   comparePasswords(p, hashPassword(q)) is true exactly when p = q, for
   every salt hashPassword draws; the salt it re-derives with is the text
   after the '.' of the stored string and the key it compares against is
   the text before it. *)
HashRoundTrip ==
    (hv.pc \in {"hashed", "compared"} =>
        LET parts == Split(hv.stored, ".")
        IN /\ Len(parts) = 2
           /\ parts[2] = hv.salt
           /\ Len(hv.salt) = 2 * SaltBytes
           /\ parts[1] = ToHex(Scrypt(hv.q, hv.salt, KeyLen)))
    /\ (hv.pc = "compared" =>
           hv.result = [threw |-> FALSE, value |-> (hv.p = hv.q)])

\* C5's case: a password with the separator in it has been verified.
HashVerified ==
    /\ hv.pc = "compared"
    /\ hv.q = <<"p", ".", "w">> /\ hv.p = hv.q
    /\ hv.result.value


(* C6: every failure is answered by one generic 500: a 500 response carries
   the fixed message of its route and nothing else, no response is sent
   twice, and no 500 carries the message of the underlying error. *)
ErrorsAreGeneric ==
    \A r \in Slots :
        /\ Len(req[r].resp) <= 1
        /\ req[r].pc = "done" => Len(req[r].resp) = 1
        /\ \A i \in 1..Len(req[r].resp) :
              req[r].resp[i].status = 500 =>
                 /\ req[r].route \in Routes
                 /\ req[r].resp[i].body = ErrorBody(RouteError[req[r].route])
                 /\ req[r].resp[i].body.error # ParseErrorMessage

\* Whether the snapshot a rates request was answered with is the fallback.
GotFallback(r) == req[r].calls.httpGet = 0 \/ req[r].calls.httpFail > 0

(* C7: fetchExchangeRates always ends with a snapshot: no GET when the key
   is unset, exactly one when it is set and never a second; the provider's
   data unchanged when the GET succeeds, getFallbackRates(baseCurrency)
   when the key is unset or the GET fails; the route never answers 500. *)
RatesAlwaysAnswered ==
    \A r \in Slots : req[r].route = "rates" =>
        /\ req[r].calls.httpGet = (IF apiKey = "" \/ req[r].pc # "done" THEN 0 ELSE 1)
        /\ req[r].calls.httpFail <= req[r].calls.httpGet
        /\ req[r].local = BaseCurrency(req[r].input)
        /\ req[r].pc = "done" =>
              /\ req[r].resp =
                    <<Response(200, IF GotFallback(r)
                                    THEN getFallbackRates(req[r].local)
                                    ELSE ProviderData(req[r].local))>>
              /\ "error" \notin DOMAIN Body(r)

\* C7's case: the key is set, the GET failed, the fallback was served.
RatesFellBack ==
    \E r \in Answered("rates") :
        /\ apiKey # "" /\ req[r].calls.httpFail = 1
        /\ Body(r) = getFallbackRates("EUR")

(* C8: getFallbackRates(b) has base_code b and exactly the ten table
   currencies as keys; for b in the table every rate is table[c] / table[b]
   (so the rate of b is 1 and, for EUR, that of USD is 1/0.85); for b not
   in the table the divisor is 1 and the rates are the table's. *)
FallbackCrossRates ==
    \A r \in Slots :
        (req[r].route = "rates" /\ req[r].pc = "done" /\ GotFallback(r)) =>
            LET b == req[r].local
                rates == Body(r).conversion_rates
            IN /\ Body(r).base_code = b
               /\ DOMAIN rates = Currencies
               /\ Cardinality(DOMAIN rates) = 10
               /\ \A c \in Currencies :
                     rates[c] = IF b \in Currencies
                                THEN Rat(baseRates[c], baseRates[b])
                                ELSE Rat(baseRates[c], 100)
               /\ b \in Currencies => rates[b] = Rat(1, 1)
               /\ b = "EUR" => rates["USD"] = Rat(100, 85)

\* A step of slot r: every step of a request moves its pc.
Moves(r) == req'[r].pc # req[r].pc

(* C9: storage is written only by creation: users change only when a
   register request whose lookup found nothing calls createUser, and then
   by one appended user whose password is the output of hashPassword on
   the submitted password, never the plaintext; conversions change only by
   one record appended by POST /conversions; steps of login, of the rates
   route and of GET /conversions change neither. *)
StorageOnlyGrows ==
    [][/\ users' # users =>
            \E r \in Slots :
               /\ Moves(r)
               /\ req[r].route = "register" /\ req[r].pc = "create"
               /\ req[r].found = <<>> /\ req[r].calls.getUser = 1
               /\ Len(users') = Len(users) + 1
               /\ SubSeq(users', 1, Len(users)) = users
               /\ LET user == users'[Len(users')]
                  IN /\ user.username = req[r].input.username
                     /\ user.password # req[r].input.password
                     /\ \E saltBytes \in RandomBytes(SaltBytes) :
                           user.password =
                              hashPassword(req[r].input.password, saltBytes)
       /\ conversions' # conversions =>
            \E r \in Slots :
               /\ Moves(r)
               /\ req[r].route = "save"
               /\ Len(conversions') = Len(conversions) + 1
               /\ SubSeq(conversions', 1, Len(conversions)) = conversions
       /\ \A r \in Slots :
            (Moves(r) /\ (req[r].route \in {"login", "rates", "list"}
                          \/ req'[r].route \in {"login", "rates", "list"})) =>
               users' = users /\ conversions' = conversions
       /\ \A r \in Slots :
            (Moves(r) /\ req'[r].calls.createUser > req[r].calls.createUser) =>
               req[r].route = "register" /\ req[r].found = <<>>
       /\ \A r \in Slots :
            (Moves(r) /\ req'[r].calls.save > req[r].calls.save) =>
               req[r].route = "save"
      ]_vars

\* C9's case: a register has stored a user and a POST a conversion.
StorageWritten ==
    /\ \E r \in Answered("register") : Status(r) = 201 /\ HasUser(users, "bob")
    /\ \E r \in Answered("save") : Status(r) = 201 /\ Len(conversions) = 1

\* Text that is an integer: an optional minus sign, then decimal digits only.
IsIntegerText(t) ==
    LET d == IF t # <<>> /\ Head(t) = "-" THEN Tail(t) ELSE t
    IN d # <<>> /\ \A i \in 1..Len(d) : IsDecDigit(d[i])

IntegerOf(t) ==
    IF Head(t) = "-" THEN 0 - DigitsValue(Tail(t), 0) ELSE DigitsValue(t, 0)

(* C10: for every GET /conversions, whatever the query, getConversions is
   called exactly once with userId, page and pageSize each an integer;
   page is 1 when absent and pageSize 10 when absent, a supplied integer is
   passed through unchanged, and the answer is 200 with the storage
   result. *)
ListArgumentsAreIntegers ==
    \A r \in Slots : (req[r].route = "list" /\ req[r].pc \in {"list", "done"}) =>
        LET q == req[r].input
            a == req[r].local
        IN /\ \A i \in 1..3 : ~a[i].nan
           /\ "page" \notin DOMAIN q => a[2] = Num(1)
           /\ "pageSize" \notin DOMAIN q => a[3] = Num(10)
           /\ ("page" \in DOMAIN q /\ IsIntegerText(q.page)) =>
                 a[2] = Num(IntegerOf(q.page))
           /\ ("pageSize" \in DOMAIN q /\ IsIntegerText(q.pageSize)) =>
                 a[3] = Num(IntegerOf(q.pageSize))
           /\ req[r].pc = "done" =>
                 /\ req[r].calls.list = 1
                 /\ Status(r) = 200 =>
                       Body(r) = getConversions(conversions, a[1], a[2], a[3])

=============================================================================
